---- MODULE Spec2Model ----
(***************************************************************************)
(* Timeline synchronisation and event aggregation of echat: one chat       *)
(* client (Matrix or Telegram adapter) talking to a remote provider.       *)
(*                                                                         *)
(* The provider is a log of raw events; every operation of the Client      *)
(* trait that mutates the timeline (select_chat, load_more_events, sync)   *)
(* is one action, with the provider's failures as nondeterministic inputs. *)
(***************************************************************************)
EXTENDS Integers, Sequences, FiniteSets, TLC

\* Bounds of the model ------------------------------------------------------

\* The provider holds at most MaxLog raw events (all conversations together).
MaxLog == 3
\* Page size of a history fetch (options.limit / load_chat_history's limit;
\* 20 in the code, scaled down so that several pages exist).
PageLimit == 2

\* The provider -------------------------------------------------------------

\* Conversations the account has joined.
Rooms == {1, 2}
\* Chat ids the UI can ask for; 3 is a conversation the client does not know.
ChatIds == {1, 2, 3}
\* The account id of the owning client (client.user_id(), user_id).
SelfId == "A"

\* Raw events the provider can receive: [room, sender, kind].  "message" is
\* a supported message-like event, "reaction" a message-like event of an
\* unsupported kind.
RawEvents ==
    { [room |-> 1, sender |-> "A", kind |-> "message"],
      [room |-> 1, sender |-> "B", kind |-> "message"],
      [room |-> 1, sender |-> "B", kind |-> "reaction"],
      [room |-> 2, sender |-> "A", kind |-> "message"] }

\* Option<T>: None is the empty sequence, Some(x) the one-element sequence.
None == << >>
Some(x) == << x >>

VARIABLES
    kind,              \* which adapter the client is: "matrix" or "telegram"
    log,               \* provider: all raw events, oldest first
    event_groups,      \* the timeline: Vec<EventGroup>
    processed_events,  \* the dedup set: HashSet<String>
    pagination_token,  \* MatrixClient::pagination_token
    sync_token,        \* MatrixClient::sync_token
    selected,          \* selected_room / selected_chat
    hung,              \* a Telegram sync task is blocked forever holding the
                       \* client and selected_chat mutexes
    tasks,             \* spawned tasks that have not finished, in spawn order
    chats,             \* EChat::chats, the cached conversation list
    storage,           \* eframe::Storage: key -> stored string
    clients,           \* EChat::clients, the registered clients
    client_keys,       \* EChat::client_keys
    active_client_index,  \* EChat::active_client_index
    logins,            \* EChat::logins, the login forms on offer
    deleted            \* delete_event: the calls that returned Ok and the
                       \* deletions the provider was asked for

\* The state of the client and of the provider.
clientvars == << kind, log, event_groups, processed_events, pagination_token,
                sync_token, selected, hung, deleted >>

\* The tasks in flight and the state of the application around the client.
appvars == << tasks, chats, storage, clients, client_keys,
             active_client_index, logins >>

vars == << kind, log, event_groups, processed_events, pagination_token,
           sync_token, selected, hung, tasks, chats, storage, clients,
           client_keys, active_client_index, logins, deleted >>

\* Generic helpers ----------------------------------------------------------

RECURSIVE Reverse(_)
Reverse(s) == IF s = << >> THEN << >> ELSE Append(Reverse(Tail(s)), Head(s))

RECURSIVE Flatten(_)
\* All events of a list of groups, in reading order.
Flatten(gs) == IF gs = << >> THEN << >> ELSE Head(gs).events \o Flatten(Tail(gs))

Range(s) == { s[i] : i \in 1..Len(s) }

\* The provider's view of the log ------------------------------------------

\* The id of the raw event at position i of the log: ids number the events
\* of one conversation, so the same id occurs in different conversations.
EventId(i) == Cardinality({ j \in 1..i : log[j].room = log[i].room })

\* The raw event at position i as delivered to the client.
Raw(i) == [ id |-> EventId(i), timestamp |-> i, room |-> log[i].room,
            sender |-> log[i].sender, kind |-> log[i].kind ]

\* History of conversation r, oldest first.
History(r) ==
    LET idx == SelectSeq([i \in 1..Len(log) |-> i], LAMBDA i : log[i].room = r)
    IN  [k \in 1..Len(idx) |-> Raw(idx[k])]

Min(a, b) == IF a < b THEN a ELSE b
Max(a, b) == IF a > b THEN a ELSE b


\* room.messages(options) with MessagesOptions::backward(): the page of at
\* most `limit` events older than `from` (the newest ones when from is None),
\* newest first, and the cursor of the next page.  An empty page carries no
\* next cursor.
Messages(r, from, limit) ==
    LET h  == History(r)
        p  == IF from = None THEN Len(h) ELSE Min(from[1], Len(h))
        lo == Max(p - limit + 1, 1)
    IN  [ chunk |-> [k \in 1..(p - lo + 1) |-> h[p - k + 1]],
          end   |-> IF p = 0 THEN None ELSE Some(lo - 1) ]

\* client.sync_once(settings): everything the provider received after
\* `token` (everything when token is None), per joined room, newest first,
\* and the token of the next window.
SyncResponse(token) ==
    LET since == IF token = None THEN 0 ELSE token[1]
        new(r) == SelectSeq(History(r), LAMBDA e : e.timestamp > since)
    IN  [ next_batch |-> Len(log),
          join |-> [r \in Rooms |-> Reverse(new(r))] ]

\* client.iter_messages(chat).offset_id(o).limit(n): the messages of the chat
\* with an id below o (all of them when o = 0), newest first, at most n.
IterMessages(chat, offset_id, limit) ==
    LET h    == History(chat)
        older == IF offset_id = 0 THEN h
                 ELSE SelectSeq(h, LAMBDA e : e.id < offset_id)
        desc == Reverse(older)
    IN  SubSeq(desc, 1, Min(limit, Len(desc)))

\* The member profile the provider resolves for a sender (room.get_member):
\* A has a display name, B has none and falls back to the raw sender id.
DisplayName(sender) == IF sender = "A" THEN "Alice" ELSE sender

\* Failures of the environment --------------------------------------------
\* step: which call fails ("none": no call fails); room, at: for a failure
\* inside the aggregation of a room's batch, the room and the position (in
\* processing order) of the event at which it happens.
NoFail == [step |-> "none", room |-> 0, at |-> 0]

\* The failures that can hit an operation whose provider calls are `steps`
\* and that aggregates, for each room r of DOMAIN lens, a batch of lens[r]
\* events.
Failures(steps, lens) ==
    { NoFail } \cup
    { [step |-> s, room |-> 0, at |-> 0] : s \in steps \cap {"provider", "find_chat"} } \cup
    { [step |-> "lookup", room |-> r, at |-> 0] :
        r \in IF "lookup" \in steps THEN { x \in DOMAIN lens : lens[x] > 0 } ELSE {} } \cup
    UNION { { [step |-> s, room |-> r, at |-> k] :
                s \in steps \cap {"deserialize", "resolve"}, k \in 1..lens[r] } :
            r \in DOMAIN lens }

\* The Matrix adapter ------------------------------------------------------

\* The loop of process_timeline_events over the batch, oldest first.
\* st = [new_groups, current_group, processed, ok]; ok = FALSE once a `?`
\* has returned the error (the groups built so far are then dropped, the
\* ids inserted so far stay in the dedup set).
RECURSIVE ProcessLoopLateInsert(_, _, _, _)
\* A loop that inserts the id into the dedup set only once the event is
\* known to be of a supported kind.
ProcessLoopLateInsert(evs, i, st, f) ==
    IF i > Len(evs) THEN st
    ELSE
      LET ev == evs[i] IN
      IF f.step = "deserialize" /\ f.at = i THEN [st EXCEPT !.ok = FALSE]
      ELSE IF ev.id \in st.processed THEN ProcessLoopLateInsert(evs, i + 1, st, f)
      ELSE IF f.step = "resolve" /\ f.at = i THEN [st EXCEPT !.ok = FALSE]
      ELSE IF ev.kind # "message" THEN ProcessLoopLateInsert(evs, i + 1, st, f)
      ELSE
        LET st1   == [st EXCEPT !.processed = @ \cup {ev.id}]
            event == [id |-> ev.id, timestamp |-> ev.timestamp, kind |-> "message"]
            cur   == st1.current_group
        IN
        IF cur # None /\ cur[1].user_id = ev.sender
        THEN ProcessLoopLateInsert(evs, i + 1,
                 [st1 EXCEPT !.current_group =
                     Some([cur[1] EXCEPT !.events = Append(@, event)])], f)
        ELSE ProcessLoopLateInsert(evs, i + 1,
                 [st1 EXCEPT
                     !.new_groups = @ \o cur,
                     !.current_group =
                         Some([ user_id      |-> ev.sender,
                                display_name |-> DisplayName(ev.sender),
                                from_self    |-> ev.sender = SelfId,
                                events       |-> << event >> ])], f)

RECURSIVE ProcessLoopEarlyGroup(_, _, _, _)
\* A loop that opens the sender's group before it knows whether the event
\* is of a supported kind.
ProcessLoopEarlyGroup(evs, i, st, f) ==
    IF i > Len(evs) THEN st
    ELSE
      LET ev == evs[i] IN
      IF f.step = "deserialize" /\ f.at = i THEN [st EXCEPT !.ok = FALSE]
      ELSE IF ev.id \in st.processed THEN ProcessLoopEarlyGroup(evs, i + 1, st, f)
      ELSE
        LET st1 == [st EXCEPT !.processed = @ \cup {ev.id}] IN
        IF f.step = "resolve" /\ f.at = i THEN [st1 EXCEPT !.ok = FALSE]
        ELSE
          LET event == [id |-> ev.id, timestamp |-> ev.timestamp, kind |-> "message"]
              shown == IF ev.kind = "message" THEN << event >> ELSE << >>
              cur   == st1.current_group
          IN
          IF cur # None /\ cur[1].user_id = ev.sender
          THEN ProcessLoopEarlyGroup(evs, i + 1,
                   [st1 EXCEPT !.current_group =
                       Some([cur[1] EXCEPT !.events = @ \o shown])], f)
          ELSE ProcessLoopEarlyGroup(evs, i + 1,
                   [st1 EXCEPT
                       !.new_groups = @ \o cur,
                       !.current_group =
                           Some([ user_id      |-> ev.sender,
                                  display_name |-> DisplayName(ev.sender),
                                  from_self    |-> ev.sender = SelfId,
                                  events       |-> shown ])], f)

RECURSIVE ProcessLoop(_, _, _, _)
ProcessLoop(evs, i, st, f) ==
    IF i > Len(evs) THEN st
    ELSE
      LET ev == evs[i] IN
      IF f.step = "deserialize" /\ f.at = i THEN [st EXCEPT !.ok = FALSE]
      ELSE IF ev.id \in st.processed THEN ProcessLoop(evs, i + 1, st, f)
      ELSE
        LET st1 == [st EXCEPT !.processed = @ \cup {ev.id}] IN
        IF f.step = "resolve" /\ f.at = i THEN [st1 EXCEPT !.ok = FALSE]
        ELSE IF ev.kind # "message" THEN ProcessLoop(evs, i + 1, st1, f)
        ELSE
          LET event == [id |-> ev.id, timestamp |-> ev.timestamp, kind |-> "message"]
              cur   == st1.current_group
          IN
          IF cur # None /\ cur[1].user_id = ev.sender
          THEN ProcessLoop(evs, i + 1,
                   [st1 EXCEPT !.current_group =
                       Some([cur[1] EXCEPT !.events = Append(@, event)])], f)
          ELSE ProcessLoop(evs, i + 1,
                   [st1 EXCEPT
                       !.new_groups = @ \o cur,
                       !.current_group =
                           Some([ user_id      |-> ev.sender,
                                  display_name |-> DisplayName(ev.sender),
                                  from_self    |-> ev.sender = SelfId,
                                  events       |-> << event >> ])], f)

RECURSIVE InsertEachAtFront(_, _)
\* for group in new_groups { event_groups.insert(0, group) }
InsertEachAtFront(groups, new_groups) ==
    IF new_groups = << >> THEN groups
    ELSE InsertEachAtFront(<< Head(new_groups) >> \o groups, Tail(new_groups))

\* A commit that merges the newest prepended group into the oldest group of
\* the timeline when both have the same sender.
CommitGroupsMerging(groups, new_groups, prepend) ==
    IF ~prepend THEN groups \o new_groups
    ELSE IF /\ groups # << >>
            /\ new_groups # << >>
            /\ new_groups[Len(new_groups)].user_id = groups[1].user_id
    THEN SubSeq(new_groups, 1, Len(new_groups) - 1)
           \o << [groups[1] EXCEPT
                    !.events = new_groups[Len(new_groups)].events \o @] >>
           \o Tail(groups)
    ELSE new_groups \o groups

\* A commit that inserts the new groups at the head without reversing them
\* first.
CommitGroupsUnreversed(groups, new_groups, prepend) ==
    IF prepend THEN InsertEachAtFront(groups, new_groups)
    ELSE groups \o new_groups

\* The commit of process_timeline_events: the new groups go to the head of
\* the timeline (prepend) or to its tail.
CommitGroups(groups, new_groups, prepend) ==
    IF prepend THEN InsertEachAtFront(groups, Reverse(new_groups))
    ELSE groups \o new_groups

\* process_timeline_events(timeline, room, prepend), with the failure f of
\* the environment: the result, the timeline and the dedup set afterwards.
ProcessTimelineEvents(groups, processed, chunk, prepend, f) ==
    LET st == ProcessLoop(Reverse(chunk), 1,
                  [ new_groups |-> << >>, current_group |-> None,
                    processed |-> processed, ok |-> TRUE ], f)
    IN  IF ~st.ok
        THEN [ ok |-> FALSE, event_groups |-> groups,
               processed_events |-> st.processed ]
        ELSE [ ok |-> TRUE,
               event_groups |->
                   CommitGroups(groups, st.new_groups \o st.current_group, prepend),
               processed_events |-> st.processed ]

RECURSIVE SyncRooms(_, _, _, _, _)
\* The loop of sync over response.rooms.join (a BTreeMap: ascending room id).
SyncRooms(rs, join, groups, processed, f) ==
    IF rs = << >>
    THEN [ res |-> "ok", event_groups |-> groups, processed_events |-> processed ]
    ELSE
      LET r == Head(rs) IN
      IF f.step = "lookup" /\ f.room = r
      THEN [ res |-> "err_lookup", event_groups |-> groups,
             processed_events |-> processed ]
      ELSE
        LET p == ProcessTimelineEvents(groups, processed, join[r], FALSE,
                     IF f.room = r THEN f ELSE NoFail)
        IN  IF ~p.ok
            THEN [ res |-> "err_aggregate", event_groups |-> p.event_groups,
                   processed_events |-> p.processed_events ]
            ELSE SyncRooms(Tail(rs), join, p.event_groups, p.processed_events, f)

\* The rooms of a sync response, in iteration order: the joined rooms that
\* have new events.
JoinedRooms(join) ==
    SelectSeq([i \in 1..Cardinality(Rooms) |-> i], LAMBDA r : join[r] # << >>)

\* A sync that writes the cursor whether or not the provider answered.
TokenAfterSyncAlways(token, failed, next_batch) == Some(next_batch)

\* The cursor after sync_once: the `?` returns the provider's error before
\* the cursor is written, a response replaces it by next_batch.
TokenAfterSync(token, failed, next_batch) ==
    IF failed THEN token ELSE Some(next_batch)

\* MatrixClient::sync
MatrixSyncResult(f) ==
    LET response == SyncResponse(sync_token)
        failed == f.step = "provider"
        token == TokenAfterSync(sync_token, failed, response.next_batch)
    IN  IF failed
        THEN [ res |-> "err_provider", event_groups |-> event_groups,
               processed_events |-> processed_events, sync_token |-> token ]
        ELSE
          LET r == SyncRooms(JoinedRooms(response.join), response.join,
                             event_groups, processed_events, f)
          IN  [ res |-> r.res, event_groups |-> r.event_groups,
                processed_events |-> r.processed_events, sync_token |-> token ]

\* A reset that forgets the dedup set.
ResetStateKeepingDedup ==
    [ event_groups |-> << >>, pagination_token |-> None,
      processed_events |-> processed_events ]

\* A reset that keeps the timeline.
ResetStateKeepingTimeline ==
    [ event_groups |-> event_groups, pagination_token |-> None,
      processed_events |-> {} ]

\* The reset of select_chat: timeline, pagination cursor and dedup set.
ResetState ==
    [ event_groups |-> << >>, pagination_token |-> None, processed_events |-> {} ]

\* MatrixClient::select_chat
MatrixSelectResult(chat_id, f) ==
    IF chat_id \notin Rooms
    THEN [ res |-> "err_not_found", event_groups |-> event_groups,
           processed_events |-> processed_events,
           pagination_token |-> pagination_token, selected |-> selected ]
    ELSE
      LET reset == ResetState IN
      IF f.step = "provider"
      THEN [ res |-> "err_fetch", event_groups |-> reset.event_groups,
             processed_events |-> reset.processed_events,
             pagination_token |-> reset.pagination_token, selected |-> selected ]
      ELSE
        LET timeline == Messages(chat_id, None, PageLimit)
            p == ProcessTimelineEvents(reset.event_groups, reset.processed_events,
                                       timeline.chunk, TRUE, f)
        IN  IF ~p.ok
            THEN [ res |-> "err_aggregate", event_groups |-> p.event_groups,
                   processed_events |-> p.processed_events,
                   pagination_token |-> reset.pagination_token,
                   selected |-> selected ]
            ELSE [ res |-> "ok", event_groups |-> p.event_groups,
                   processed_events |-> p.processed_events,
                   pagination_token |-> timeline.end,
                   selected |-> Some(chat_id) ]

\* MatrixClient::load_more_events
MatrixLoadMoreResult(f) ==
    IF selected = None
    THEN [ res |-> "err_not_selected", event_groups |-> event_groups,
           processed_events |-> processed_events,
           pagination_token |-> pagination_token ]
    ELSE IF f.step = "provider"
    THEN [ res |-> "err_fetch", event_groups |-> event_groups,
           processed_events |-> processed_events,
           pagination_token |-> pagination_token ]
    ELSE
      LET timeline == Messages(selected[1], pagination_token, PageLimit)
          p == ProcessTimelineEvents(event_groups, processed_events,
                                     timeline.chunk, TRUE, f)
      IN  IF ~p.ok
          THEN [ res |-> "err_aggregate", event_groups |-> p.event_groups,
                 processed_events |-> p.processed_events,
                 pagination_token |-> pagination_token ]
          ELSE [ res |-> "ok", event_groups |-> p.event_groups,
                 processed_events |-> p.processed_events,
                 pagination_token |-> timeline.end ]

\* The Telegram adapter ----------------------------------------------------

\* A group search that takes the first group of the timeline, whoever its
\* sender is.
MatchesAnyGroup(g, outgoing, sender_id) == TRUE

\* The test of the group search: the group of the sender for an incoming
\* message (group.user_id == sender_id), a group of the account's own
\* messages for an outgoing one (group.from_self).
Matches(g, outgoing, sender_id) ==
    IF outgoing THEN g.from_self ELSE g.user_id = sender_id

\* The first group of the timeline that passes the test, 0 when there is
\* none (the `for group in event_groups.iter_mut() { if ... break }` search).
FirstGroup(groups, outgoing, sender_id) ==
    LET hits == { i \in 1..Len(groups) : Matches(groups[i], outgoing, sender_id) }
    IN  IF hits = {} THEN 0
        ELSE CHOOSE i \in hits : \A j \in hits : i <= j

\* A process_message that marks no group as the account's own.
ProcessMessageNeverSelf(groups, processed, message) ==
    IF message.id \in processed
    THEN [ event_groups |-> groups, processed_events |-> processed ]
    ELSE
      LET outgoing == message.sender = SelfId
          event == [ id |-> message.id, timestamp |-> message.timestamp,
                     kind |-> "message" ]
          found == FirstGroup(groups, outgoing, message.sender)
          group == [ user_id      |-> message.sender,
                     display_name |-> IF outgoing THEN "You"
                                      ELSE DisplayName(message.sender),
                     from_self    |-> FALSE,
                     events       |-> << event >> ]
      IN  [ event_groups |->
                IF found # 0
                THEN [groups EXCEPT ![found].events = Append(@, event)]
                ELSE Append(groups, group),
            processed_events |-> processed \cup {message.id} ]

\* TelegramClient::process_message
ProcessMessage(groups, processed, message) ==
    IF message.id \in processed
    THEN [ event_groups |-> groups, processed_events |-> processed ]
    ELSE
      LET outgoing == message.sender = SelfId
          event == [ id |-> message.id, timestamp |-> message.timestamp,
                     kind |-> "message" ]
          found == FirstGroup(groups, outgoing, message.sender)
          group == [ user_id      |-> message.sender,
                     display_name |-> IF outgoing THEN "You"
                                      ELSE DisplayName(message.sender),
                     from_self    |-> outgoing,
                     events       |-> << event >> ]
      IN  [ event_groups |->
                IF found # 0
                THEN [groups EXCEPT ![found].events = Append(@, event)]
                ELSE Append(groups, group),
            processed_events |-> processed \cup {message.id} ]

RECURSIVE ProcessMessages(_, _, _)
\* for message in messages_vec { self.process_message(&message).await?; }
ProcessMessages(groups, processed, messages) ==
    IF messages = << >>
    THEN [ event_groups |-> groups, processed_events |-> processed ]
    ELSE LET p == ProcessMessage(groups, processed, Head(messages))
         IN  ProcessMessages(p.event_groups, p.processed_events, Tail(messages))

\* The reset of TelegramClient::select_chat: timeline and dedup set.
TelegramResetState == [ event_groups |-> << >>, processed_events |-> {} ]

\* TelegramClient::select_chat (find_chat, reset, load_chat_history)
TelegramSelectResult(chat_id, f) ==
    IF chat_id \notin Rooms \/ f.step = "find_chat"
    THEN [ res |-> "err_not_found", event_groups |-> event_groups,
           processed_events |-> processed_events, selected |-> selected ]
    ELSE
      LET reset == TelegramResetState IN
      IF f.step = "provider"
      THEN [ res |-> "err_fetch", event_groups |-> reset.event_groups,
             processed_events |-> reset.processed_events,
             selected |-> Some(chat_id) ]
      ELSE
        LET p == ProcessMessages(reset.event_groups, reset.processed_events,
                                 IterMessages(chat_id, 0, PageLimit))
        IN  [ res |-> "ok", event_groups |-> p.event_groups,
              processed_events |-> p.processed_events,
              selected |-> Some(chat_id) ]

\* The offset load_more_events passes to iter_messages(..).offset_id: the
\* number of events in the timeline.
EventCount == Len(Flatten(event_groups))

\* TelegramClient::load_more_events
TelegramLoadMoreResult(f) ==
    IF selected = None
    THEN [ res |-> "ok", event_groups |-> event_groups,
           processed_events |-> processed_events ]
    ELSE IF f.step = "find_chat"
    THEN [ res |-> "err_not_found", event_groups |-> event_groups,
           processed_events |-> processed_events ]
    ELSE IF f.step = "provider"
    THEN [ res |-> "err_fetch", event_groups |-> event_groups,
           processed_events |-> processed_events ]
    ELSE
      LET event_count == EventCount
          p == ProcessMessages(event_groups, processed_events,
                               IterMessages(selected[1], event_count, PageLimit))
      IN  [ res |-> "ok", event_groups |-> p.event_groups,
            processed_events |-> p.processed_events ]


\* The state machine ------------------------------------------------------

Init ==
    /\ kind \in {"matrix", "telegram"}
    /\ log = << >>
    /\ event_groups = << >>
    /\ processed_events = {}
    /\ pagination_token = None
    /\ sync_token = None
    /\ selected = None
    /\ hung = FALSE
    /\ deleted = [ returned |-> {}, provider |-> {} ]
    /\ tasks = << >>
    /\ chats = << >>
    /\ storage = << >>
    /\ clients = << kind >>
    /\ client_keys = << >>
    /\ active_client_index = Some(0)
    /\ logins = << >>

\* The provider receives a new event in one of the conversations.
NewEvent ==
    /\ Len(log) < MaxLog
    /\ \E e \in RawEvents : log' = Append(log, e)
    /\ UNCHANGED appvars
    /\ UNCHANGED << deleted, kind, event_groups, processed_events, pagination_token,
                    sync_token, selected, hung >>

\* The failures that can hit each operation in the current state.
MatrixSelectFailures(chat_id) ==
    Failures({"provider", "deserialize", "resolve"},
             [r \in {chat_id} \cap Rooms |-> Len(Messages(r, None, PageLimit).chunk)])

MatrixLoadMoreFailures ==
    Failures({"provider", "deserialize", "resolve"},
             [r \in Range(selected) |->
                 Len(Messages(r, pagination_token, PageLimit).chunk)])

MatrixSyncFailures ==
    Failures({"provider", "lookup", "deserialize", "resolve"},
             [r \in Rooms |-> Len(SyncResponse(sync_token).join[r])])

TelegramFailures == Failures({"find_chat", "provider"}, << >>)

\* select_chat(chat_id) of the Matrix client, the environment failing as f.
MatrixSelectChatStep(chat_id, f) ==
    LET r == MatrixSelectResult(chat_id, f) IN
    /\ kind = "matrix"
    /\ UNCHANGED appvars
    /\ UNCHANGED << deleted, kind, log, sync_token, hung >>
    /\ event_groups' = r.event_groups
    /\ processed_events' = r.processed_events
    /\ pagination_token' = r.pagination_token
    /\ selected' = r.selected

MatrixSelectChat ==
    \E chat_id \in ChatIds : \E f \in MatrixSelectFailures(chat_id) :
        MatrixSelectChatStep(chat_id, f)

\* load_more_events() of the Matrix client.
MatrixLoadMoreStep(f) ==
    LET r == MatrixLoadMoreResult(f) IN
    /\ kind = "matrix"
    /\ UNCHANGED appvars
    /\ UNCHANGED << deleted, kind, log, sync_token, selected, hung >>
    /\ event_groups' = r.event_groups
    /\ processed_events' = r.processed_events
    /\ pagination_token' = r.pagination_token

MatrixLoadMoreEvents == \E f \in MatrixLoadMoreFailures : MatrixLoadMoreStep(f)

\* sync() of the Matrix client.
MatrixSyncStep(f) ==
    LET r == MatrixSyncResult(f) IN
    /\ kind = "matrix"
    /\ UNCHANGED appvars
    /\ UNCHANGED << deleted, kind, log, pagination_token, selected, hung >>
    /\ event_groups' = r.event_groups
    /\ processed_events' = r.processed_events
    /\ sync_token' = r.sync_token

MatrixSync == \E f \in MatrixSyncFailures : MatrixSyncStep(f)

\* select_chat(chat_id) of the Telegram client.
TelegramSelectChatStep(chat_id, f) ==
    LET r == TelegramSelectResult(chat_id, f) IN
    /\ kind = "telegram"
    /\ ~hung
    /\ UNCHANGED appvars
    /\ UNCHANGED << deleted, kind, log, pagination_token, sync_token, hung >>
    /\ event_groups' = r.event_groups
    /\ processed_events' = r.processed_events
    /\ selected' = r.selected

TelegramSelectChat ==
    \E chat_id \in ChatIds : \E f \in TelegramFailures :
        TelegramSelectChatStep(chat_id, f)

\* load_more_events() of the Telegram client.
TelegramLoadMoreStep(f) ==
    LET r == TelegramLoadMoreResult(f) IN
    /\ kind = "telegram"
    /\ ~hung
    /\ UNCHANGED appvars
    /\ UNCHANGED << deleted, kind, log, pagination_token, sync_token, selected, hung >>
    /\ event_groups' = r.event_groups
    /\ processed_events' = r.processed_events

TelegramLoadMoreEvents == \E f \in TelegramFailures : TelegramLoadMoreStep(f)

\* TelegramClient::sync.  With no chat selected it fetches nothing and
\* returns Ok.  With a chat selected it calls find_chat while it holds the
\* client mutex that find_chat locks again: the task never returns and keeps
\* the client and selected_chat mutexes, which every later operation needs.
TelegramSync ==
    /\ kind = "telegram"
    /\ ~hung
    /\ hung' = (selected # None)
    /\ UNCHANGED appvars
    /\ UNCHANGED << deleted, kind, log, event_groups, processed_events, pagination_token,
                    sync_token, selected >>

Next ==
    \/ NewEvent
    \/ MatrixSelectChat
    \/ MatrixLoadMoreEvents
    \/ MatrixSync
    \/ TelegramSelectChat
    \/ TelegramLoadMoreEvents
    \/ TelegramSync

Spec == Init /\ [][Next]_vars


\* ------------------------------------------------------------------------
\* Properties
\* ------------------------------------------------------------------------

\* What the provider knows of an aggregated event (an Event keeps only id,
\* timestamp and kind; the timestamp is the event's position in the log).
RoomOf(e) == log[e.timestamp].room
SenderOf(e) == log[e.timestamp].sender

\* The aggregated form of a raw event.
AsEvent(raw) == [ id |-> raw.id, timestamp |-> raw.timestamp, kind |-> "message" ]

\* The events of the timeline, in reading order.
TimelineEvents == Flatten(event_groups)

IsSuffix(s, t) ==
    /\ Len(s) <= Len(t)
    /\ SubSeq(t, Len(t) - Len(s) + 1, Len(t)) = s

IsPrefix(s, t) ==
    /\ Len(s) <= Len(t)
    /\ SubSeq(t, 1, Len(s)) = s

RECURSIVE Fresh(_, _)
\* Of a batch in processing order, the events an aggregation call has to add:
\* the supported ones whose id the dedup set `seen` does not hold yet.
Fresh(evs, seen) ==
    IF evs = << >> THEN << >>
    ELSE LET e == Head(evs) IN
         IF e.id \in seen THEN Fresh(Tail(evs), seen)
         ELSE IF e.kind # "message" THEN Fresh(Tail(evs), seen \cup {e.id})
         ELSE << AsEvent(e) >> \o Fresh(Tail(evs), seen \cup {e.id})

\* The batch a load_more_events of the Matrix client is given in this state.
LoadMoreChunk == Messages(selected[1], pagination_token, PageLimit).chunk

\* The batch a select_chat of the Matrix client is given.
SelectChunk(chat_id) == Messages(chat_id, None, PageLimit).chunk


\* The failures a second feed of the same batch can meet after a first feed
\* met f: a raw event that does not deserialize fails again at the same
\* place, a sender resolution may fail or succeed at any event.
Refeed(f, fs) ==
    IF f.step = "deserialize" THEN {f}
    ELSE { f2 \in fs : f2.step \in {"none", "resolve"} }

\* C1 -- Idempotence of aggregation: once a batch has been fed to the
\* aggregator, feeding the same batch again (same mode, same selected
\* conversation) leaves the timeline as the first call left it: the second
\* call adds no event and no group.  Checked on the aggregation calls of
\* both adapters: the step is the first call, the second call is the
\* aggregator applied, to the same batch, in the state the step ends in.
C1_FeedTwiceEqualsOnce ==
    [][ /\ \A c \in Rooms : \A f \in MatrixSelectFailures(c) :
            (MatrixSelectChatStep(c, f) /\ f.step # "provider") =>
              \A f2 \in Refeed(f, MatrixSelectFailures(c)) :
                ProcessTimelineEvents(event_groups', processed_events',
                    SelectChunk(c), TRUE, f2).event_groups = event_groups'
        /\ \A f \in MatrixLoadMoreFailures :
            (MatrixLoadMoreStep(f) /\ selected # None /\ f.step # "provider") =>
              \A f2 \in Refeed(f, MatrixLoadMoreFailures) :
                ProcessTimelineEvents(event_groups', processed_events',
                    LoadMoreChunk, TRUE, f2).event_groups = event_groups'
        /\ \A f \in MatrixSyncFailures :
            LET join == SyncResponse(sync_token).join
                rs == JoinedRooms(join)
            IN  ( /\ MatrixSyncStep(f)
                  /\ rs # << >>
                  /\ f.step \notin {"provider", "lookup"}
                  /\ f.room \in {0, Head(rs)} ) =>
                  \A f2 \in Refeed(f, MatrixSyncFailures) :
                    ProcessTimelineEvents(event_groups', processed_events',
                        join[Head(rs)], FALSE, f2).event_groups = event_groups'
        /\ \A c \in Rooms :
            TelegramSelectChatStep(c, NoFail) =>
                ProcessMessages(event_groups', processed_events',
                    IterMessages(c, 0, PageLimit)).event_groups = event_groups'
        /\ (TelegramLoadMoreStep(NoFail) /\ selected # None) =>
                ProcessMessages(event_groups', processed_events',
                    IterMessages(selected[1], Len(TimelineEvents), PageLimit)
                    ).event_groups = event_groups'
      ]_vars

\* C2 -- Grouping correctness: a group holds a run of consecutive events of
\* one sender; no event of the timeline lies, in its conversation, between
\* two neighbouring events of a group of which it is not part (a later A is
\* not merged into an earlier A across an intervening B), for both adapters.
C2_GroupsAreRuns ==
    \A i \in 1..Len(event_groups) :
        LET g == event_groups[i] IN
        /\ \A k \in 1..Len(g.events) : SenderOf(g.events[k]) = g.user_id
        /\ \A k \in 1..(Len(g.events) - 1) :
             LET x == g.events[k]
                 y == g.events[k + 1]
             IN  ~ \E j \in 1..Len(event_groups) : \E m \in 1..Len(event_groups[j].events) :
                     LET z == event_groups[j].events[m] IN
                     /\ j # i
                     /\ RoomOf(z) = RoomOf(x) /\ RoomOf(z) = RoomOf(y)
                     /\ \/ (x.timestamp < z.timestamp /\ z.timestamp < y.timestamp)
                        \/ (y.timestamp < z.timestamp /\ z.timestamp < x.timestamp)

\* The events a step added at the tail of the timeline.
Appended == SubSeq(TimelineEvents', Len(TimelineEvents) + 1, Len(TimelineEvents'))

\* C3 -- Append extends the tail: when a sync of the Matrix client delivers,
\* as the first event it adds, an event of the sender of the current last
\* group, the event is added to that group (which then holds more events
\* than before) instead of opening a new group.
C3_AppendExtendsTail ==
    [][ \A f \in MatrixSyncFailures :
          LET n == Len(event_groups) IN
          ( /\ MatrixSyncStep(f)
            /\ MatrixSyncResult(f).res = "ok"
            /\ n > 0
            /\ IsPrefix(TimelineEvents, TimelineEvents')
            /\ Appended # << >>
            /\ SenderOf(Appended[1]) = event_groups[n].user_id ) =>
              /\ Len(event_groups') >= n
              /\ IsPrefix(Append(event_groups[n].events, Appended[1]),
                          event_groups'[n].events)
      ]_vars


RECURSIVE SyncBatch(_, _)
SyncBatch(rs, join) ==
    IF rs = << >> THEN << >>
    ELSE Reverse(join[Head(rs)]) \o SyncBatch(Tail(rs), join)

Ids(chunk) == { chunk[k].id : k \in 1..Len(chunk) }

\* The events a selection must show: the supported events of the page
\* (Matrix), every message of the page as a text message (Telegram).
Supported(chunk) ==
    { AsEvent(chunk[k]) : k \in { j \in 1..Len(chunk) : chunk[j].kind = "message" } }

AsText(chunk) ==
    { [ id |-> chunk[k].id, timestamp |-> chunk[k].timestamp, kind |-> "message" ] :
        k \in 1..Len(chunk) }

\* C6 -- Selection reset: a successful select_chat aggregates the newest
\* page of the chosen conversation from an empty dedup set and an unset
\* pagination cursor, whatever was processed before: every supported event
\* of the page is in the timeline, the dedup set holds the ids of the page
\* and nothing else, and (Matrix) the cursor is the one of that page.
C6_SelectionReset ==
    [][ /\ \A c \in Rooms :
            (selected' = Some(c) /\ MatrixSelectChatStep(c, NoFail)) =>
                /\ Range(TimelineEvents') = Supported(SelectChunk(c))
                /\ processed_events' = Ids(SelectChunk(c))
                /\ pagination_token' = Messages(c, None, PageLimit).end
        /\ \A c \in Rooms :
            (selected' = Some(c) /\ TelegramSelectChatStep(c, NoFail)) =>
                /\ Range(TimelineEvents') = AsText(IterMessages(c, 0, PageLimit))
                /\ processed_events' = Ids(IterMessages(c, 0, PageLimit))
      ]_vars

\* A conversation X is selected and has been paged, an id of its dedup set
\* is the id of a supported event of the newest page of another
\* conversation Y, and select_chat(Y) succeeds and shows that event.
C6_Witness ==
    \E c \in Rooms :
        /\ selected # None
        /\ selected # Some(c)
        /\ \E k \in 1..Len(SelectChunk(c)) :
              LET e == SelectChunk(c)[k] IN
              /\ e.kind = "message"
              /\ e.id \in processed_events
              /\ \E g \in Range(event_groups) : \E x \in Range(g.events) : x.id = e.id
              /\ ENABLED ( /\ \/ MatrixSelectChatStep(c, NoFail)
                              \/ TelegramSelectChatStep(c, NoFail)
                           /\ selected' = Some(c)
                           /\ AsEvent(e) \in Range(TimelineEvents') )

ProviderFailure == [step |-> "provider", room |-> 0, at |-> 0]

\* C7 -- Sync failure leaves the cursor untouched: a sync of the Matrix
\* client whose provider call (sync_once) fails ends with the sync_token it
\* started with.
C7_SyncFailureKeepsCursor ==
    [][ (MatrixSyncStep(ProviderFailure)) => sync_token' = sync_token ]_vars

\* The Matrix client holds a cursor, the provider has events past it, and
\* the sync whose provider call fails is a step of this state back to it.
C7_Witness ==
    /\ kind = "matrix"
    /\ sync_token # None
    /\ \E r \in Rooms : SyncResponse(sync_token).join[r] # << >>
    /\ MatrixSyncResult(ProviderFailure).res = "err_provider"
    /\ ENABLED MatrixSyncStep(ProviderFailure)

\* C8 -- No silent gap: whenever sync() returns an error, at whatever step
\* (provider call, room lookup, aggregation of a room's events), the cursor
\* is the one the failed call started from, so that the next sync asks for
\* the same window.
C8_FailedSyncRepeatsWindow ==
    [][ \A f \in MatrixSyncFailures :
          (MatrixSyncStep(f) /\ MatrixSyncResult(f).res # "ok") =>
              sync_token' = sync_token
      ]_vars

\* C9 -- select_chat is all-or-nothing: when it returns an error (unknown
\* conversation, failed fetch, failed aggregation), timeline, dedup set,
\* pagination cursor and selection are what they were before the call.
C9_FailedSelectChangesNothing ==
    [][ /\ \A c \in ChatIds : \A f \in MatrixSelectFailures(c) :
            (MatrixSelectChatStep(c, f) /\ MatrixSelectResult(c, f).res # "ok") =>
                UNCHANGED << event_groups, processed_events, pagination_token, selected >>
        /\ \A c \in ChatIds : \A f \in TelegramFailures :
            (TelegramSelectChatStep(c, f) /\ TelegramSelectResult(c, f).res # "ok") =>
                UNCHANGED << event_groups, processed_events, pagination_token, selected >>
      ]_vars

\* C10 -- Sync only feeds the selected conversation: in every reachable
\* state every event of the timeline is an event of the selected
\* conversation; with no conversation selected the timeline is empty.
C10_TimelineOfSelectedOnly ==
    \A k \in 1..Len(TimelineEvents) :
        selected # None /\ RoomOf(TimelineEvents[k]) = selected[1]


\* ------------------------------------------------------------------------
\* Overlapping calls on one Matrix client
\* ------------------------------------------------------------------------
\* load_more_events and sync suspend at their provider call (room.messages,
\* sync_once) holding no lock: each is two steps, the part before the await
\* and the part after it.  select_chat runs between them as one step.

\* At most MaxTasks calls are suspended at their provider call.
MaxTasks == 2

RemoveAt(s, i) == SubSeq(s, 1, i - 1) \o SubSeq(s, i + 1, Len(s))

\* A suspended call: what it read before its provider call.  sel is the
\* selection at that moment, from the cursor it passes to the provider.
Task(op, sel, from) == [ op |-> op, sel |-> sel, from |-> from ]

ConcInit ==
    /\ Init
    /\ kind = "matrix"

\* select_chat(chat_id), no call of the provider failing.
ConcSelectChat == \E chat_id \in Rooms : MatrixSelectChatStep(chat_id, NoFail)

\* load_more_events up to room.messages(options).await: the selected room
\* and the pagination cursor are read, each under a lock that is released
\* at once.  With no room selected the call returns an error here.
LoadMoreFetch ==
    /\ kind = "matrix"
    /\ Len(tasks) < MaxTasks
    /\ selected # None
    /\ tasks' = Append(tasks, Task("load_more", selected, pagination_token))
    /\ UNCHANGED clientvars
    /\ UNCHANGED << chats, storage, clients, client_keys, active_client_index,
                    logins >>

\* What load_more_events does once the provider has answered the fetch of
\* task t: the page is aggregated into the timeline and its end becomes the
\* pagination cursor.
LoadMoreResumeResult(t) ==
    LET timeline == Messages(t.sel[1], t.from, PageLimit)
        p == ProcessTimelineEvents(event_groups, processed_events,
                                   timeline.chunk, TRUE, NoFail)
    IN  [ chunk |-> timeline.chunk, event_groups |-> p.event_groups,
          processed_events |-> p.processed_events,
          pagination_token |-> timeline.end ]

LoadMoreResumeStep(i) ==
    LET r == LoadMoreResumeResult(tasks[i]) IN
    /\ tasks[i].op = "load_more"
    /\ tasks' = RemoveAt(tasks, i)
    /\ event_groups' = r.event_groups
    /\ processed_events' = r.processed_events
    /\ pagination_token' = r.pagination_token
    /\ UNCHANGED << deleted, kind, log, sync_token, selected, hung >>
    /\ UNCHANGED << chats, storage, clients, client_keys, active_client_index,
                    logins >>

LoadMoreResume == \E i \in 1..Len(tasks) : LoadMoreResumeStep(i)

\* sync up to client.sync_once(settings).await: the sync cursor is read
\* under a lock that is released before the call.
SyncFetch ==
    /\ kind = "matrix"
    /\ Len(tasks) < MaxTasks
    /\ tasks' = Append(tasks, Task("sync", selected, sync_token))
    /\ UNCHANGED clientvars
    /\ UNCHANGED << chats, storage, clients, client_keys, active_client_index,
                    logins >>

\* What sync does once the provider has answered the request of task t.
SyncResumeResult(t) ==
    LET response == SyncResponse(t.from)
        r == SyncRooms(JoinedRooms(response.join), response.join,
                       event_groups, processed_events, NoFail)
    IN  [ event_groups |-> r.event_groups,
          processed_events |-> r.processed_events,
          sync_token |-> TokenAfterSync(sync_token, FALSE, response.next_batch) ]

SyncResumeStep(i) ==
    LET r == SyncResumeResult(tasks[i]) IN
    /\ tasks[i].op = "sync"
    /\ tasks' = RemoveAt(tasks, i)
    /\ event_groups' = r.event_groups
    /\ processed_events' = r.processed_events
    /\ sync_token' = r.sync_token
    /\ UNCHANGED << deleted, kind, log, pagination_token, selected, hung >>
    /\ UNCHANGED << chats, storage, clients, client_keys, active_client_index,
                    logins >>

SyncResume == \E i \in 1..Len(tasks) : SyncResumeStep(i)

ConcNext ==
    \/ NewEvent
    \/ ConcSelectChat
    \/ LoadMoreFetch
    \/ LoadMoreResume
    \/ SyncFetch
    \/ SyncResume

ConcSpec == ConcInit /\ [][ConcNext]_vars

\* C11 -- Stale results are discarded: when a load_more_events or a sync
\* resumes after its provider call and the selection is no longer the one
\* it was dispatched under, none of its events enters the timeline and the
\* pagination cursor is not set from its result.
C11_StaleResultsDiscarded ==
    [][ \A i \in 1..Len(tasks) :
          /\ (selected # tasks[i].sel /\ LoadMoreResumeStep(i)) =>
                UNCHANGED << event_groups, pagination_token >>
          /\ ( /\ tasks[i].sel # None
                /\ selected # tasks[i].sel
                /\ SyncResumeStep(i) ) =>
                UNCHANGED event_groups
      ]_vars

\* C12 -- At most one pagination fetch in flight: no two load_more_events
\* calls are suspended at their provider call having read the same
\* pagination cursor for the same conversation.
C12_OnePaginationFetch ==
    \A i, j \in 1..Len(tasks) :
        ( /\ i < j
          /\ tasks[i].op = "load_more"
          /\ tasks[j].op = "load_more"
          /\ tasks[i].sel = tasks[j].sel ) => tasks[i].from # tasks[j].from

\* C14 -- No two syncs in flight: two sync calls of one client are never
\* both between their read of sync_token and their write of the token the
\* provider returned.
C14_OneSyncInFlight ==
    \A i, j \in 1..Len(tasks) :
        (i < j /\ tasks[i].op = "sync") => tasks[j].op # "sync"


\* C13 -- End of history is absorbing: once load_more_events of the Matrix
\* client has been answered with an empty page and no next cursor, a later
\* load_more_events for the same selection fetches nothing and leaves the
\* timeline, the dedup set and the pagination cursor as they are.  The step
\* is the call that receives the empty page; the later call is evaluated in
\* the state the step ends in.
C13_EndOfHistoryAbsorbing ==
    [][ ( /\ selected # None
          /\ LoadMoreChunk = << >>
          /\ Messages(selected[1], pagination_token, PageLimit).end = None
          /\ MatrixLoadMoreStep(NoFail) ) =>
            /\ LoadMoreChunk' = << >>
            /\ MatrixLoadMoreResult(NoFail)'.event_groups = event_groups'
            /\ MatrixLoadMoreResult(NoFail)'.processed_events = processed_events'
            /\ MatrixLoadMoreResult(NoFail)'.pagination_token = pagination_token'
      ]_vars


\* C15 -- Sender-resolution failure never aborts a batch: a select_chat,
\* load_more_events or sync of the Matrix client during which the sender
\* resolution fails for one event returns Ok and leaves the timeline with
\* the events that the same call leaves when no resolution fails: the event
\* concerned is shown, the rest of the batch is processed and committed.
C15_ResolutionFailureKeepsBatch ==
    [][ /\ \A c \in Rooms : \A f \in MatrixSelectFailures(c) :
            (f.step = "resolve" /\ MatrixSelectChatStep(c, f)) =>
                /\ MatrixSelectResult(c, f).res = "ok"
                /\ TimelineEvents' = Flatten(MatrixSelectResult(c, NoFail).event_groups)
        /\ \A f \in MatrixLoadMoreFailures :
            (f.step = "resolve" /\ MatrixLoadMoreStep(f)) =>
                /\ MatrixLoadMoreResult(f).res = "ok"
                /\ TimelineEvents' = Flatten(MatrixLoadMoreResult(NoFail).event_groups)
        /\ \A f \in MatrixSyncFailures :
            (f.step = "resolve" /\ MatrixSyncStep(f)) =>
                /\ MatrixSyncResult(f).res = "ok"
                /\ TimelineEvents' = Flatten(MatrixSyncResult(NoFail).event_groups)
      ]_vars

\* C16 -- Errors never corrupt aggregated state: a sync or a
\* load_more_events of the Matrix client that returns an error leaves the
\* timeline and the dedup set as they were before the call.
C16_ErrorsKeepAggregatedState ==
    [][ /\ \A f \in MatrixLoadMoreFailures :
            (MatrixLoadMoreStep(f) /\ MatrixLoadMoreResult(f).res # "ok") =>
                UNCHANGED << event_groups, processed_events >>
        /\ \A f \in MatrixSyncFailures :
            (MatrixSyncStep(f) /\ MatrixSyncResult(f).res # "ok") =>
                UNCHANGED << event_groups, processed_events >>
      ]_vars

\* The application -----------------------------------------------------------
\*
\* EChat owns the registered clients, the cached conversation list and the
\* login forms, and persists itself and each client's session in the key /
\* value storage of the UI framework.  The account of the model is the one
\* of provider `kind` with id SelfId.

\* Length bound of the persisted key list (a key is pushed at every login).
MaxKeys == 2
\* Number of events the provider receives while the application is observed.
MaxAppLog == 1

\* eframe::APP_KEY, the key of the persisted application state.
APP_KEY == "app"

\* format!("{}-{}", client_name, self_id)
Key(client_name, self_id) == client_name \o "-" \o self_id

\* key.starts_with(prefix), for the keys an account id can complete.
StartsWith(key, prefix) == \E id \in {SelfId} : key = prefix \o id

\* storage.set_string(key, value) / eframe::set_value(storage, key, value)
SetString(st, key, value) ==
    [ k \in DOMAIN st \cup {key} |-> IF k = key THEN value ELSE st[k] ]

\* A stored string is modelled by the JSON object it spells: a record whose
\* domain is the set of members present.  Damaged is a value that spells no
\* session and no application state.
Damaged == [ garbage |-> TRUE ]

\* A serialization of the Matrix session that leaves the cursor out.
MatrixSerializeDroppingToken(token) ==
    [ client_session |-> "cs", user_session |-> "us" ]

\* serde_json::to_string(&FullSession) of the Matrix client: sync_token is
\* skipped when it is None.
MatrixSerialize(token) ==
    IF token = None
    THEN [ client_session |-> "cs", user_session |-> "us" ]
    ELSE [ client_session |-> "cs", user_session |-> "us", sync_token |-> token[1] ]

\* serde_json::from_str::<FullSession>: client_session and user_session are
\* required, a missing sync_token is None.
MatrixDeserialize(str) ==
    IF {"client_session", "user_session"} \subseteq DOMAIN str
    THEN [ ok |-> TRUE,
           sync_token |-> IF "sync_token" \in DOMAIN str
                          THEN Some(str.sync_token) ELSE None ]
    ELSE [ ok |-> FALSE, sync_token |-> None ]

\* serde_json::to_string(&FullSession) of the Telegram client: session_data
\* is the content of the session file when the file exists.
TelegramSerialize(has_file) ==
    [ client_session |-> "cs",
      session_data |-> IF has_file THEN Some("file") ELSE None ]

\* serde_json::from_str::<FullSession> of the Telegram client followed by
\* session_data.ok_or_else(..)?.
TelegramDeserialize(str) ==
    IF {"client_session", "session_data"} \subseteq DOMAIN str
    THEN [ ok |-> str.session_data # None, sync_token |-> None ]
    ELSE [ ok |-> FALSE, sync_token |-> None ]

\* A load that answers a value it cannot parse with a fresh client.
LoadFromStorageLenient(st, key, net_ok) ==
    [ res |-> IF key \in DOMAIN st THEN "ok" ELSE "err", sync_token |-> None ]

\* load_from_storage(storage, key), dispatched on the key's prefix as
\* EChat::new does.  net_ok: building the client, restoring the session and
\* connecting succeed.  The result is a client ("ok") or an error value.
LoadFromStorage(st, key, net_ok) ==
    IF key \notin DOMAIN st
    THEN [ res |-> "err", sync_token |-> None ]
    ELSE
      LET s == IF StartsWith(key, "matrix-") THEN MatrixDeserialize(st[key])
               ELSE IF StartsWith(key, "telegram-") THEN TelegramDeserialize(st[key])
               ELSE [ ok |-> FALSE, sync_token |-> None ]
      IN  IF s.ok /\ net_ok
          THEN [ res |-> "ok", sync_token |-> s.sync_token ]
          ELSE [ res |-> "err", sync_token |-> None ]

\* client.save(storage, key).  session_ok: the Matrix session is still there
\* (matrix_auth().session()), the Telegram session file can be read.
ClientSave(st, key, token, session_ok, has_file) ==
    IF ~session_ok
    THEN [ ok |-> FALSE, storage |-> st ]
    ELSE [ ok |-> TRUE,
           storage |-> SetString(st, key,
               IF kind = "matrix" THEN MatrixSerialize(token)
               ELSE TelegramSerialize(has_file)) ]

\* What serde writes of EChat: rt, logins and clients are skipped.
AppState(keys, cache, active) ==
    [ client_keys |-> keys, chats |-> cache, active_client_index |-> active ]

\* EChat::default(): no client, no key, an empty cache and the two forms.
LoginForms == << "matrix", "telegram" >>
DefaultApp == AppState(<< >>, << >>, None)

\* eframe::get_value(storage, APP_KEY).unwrap_or_default()
GetApp(st) ==
    IF APP_KEY \in DOMAIN st /\
       {"client_keys", "chats", "active_client_index"} \subseteq DOMAIN st[APP_KEY]
    THEN st[APP_KEY]
    ELSE DefaultApp

\* chats() of a client: the list is built in a local vector, one entry per
\* conversation; a provider failure at conversation fail_at (0: none) returns
\* the error and drops what was built so far (kept here as `chats`).
ListChats(fail_at) ==
    LET n == IF fail_at = 0 THEN Cardinality(Rooms) ELSE fail_at - 1
    IN  [ ok |-> fail_at = 0, chats |-> [ i \in 1..n |-> [ id |-> i ] ] ]

\* A refresh that stores whatever chats() had built when it returned.
ReplaceChatsPartial(cache, synced, listed) ==
    IF synced THEN listed.chats ELSE cache

\* The cache after the spawned refresh: a failed sync returns before chats()
\* is called, Ok(client_chats) replaces the cache, Err is only logged.
ReplaceChats(cache, synced, listed) ==
    IF synced /\ listed.ok THEN listed.chats ELSE cache

\* The state of the application after EChat::new on an empty storage: the
\* two forms of Default and the two pushed because no client was loaded.
AppInit ==
    /\ kind \in {"matrix", "telegram"}
    /\ log = << >>
    /\ event_groups = << >>
    /\ processed_events = {}
    /\ pagination_token = None
    /\ sync_token = None
    /\ selected = None
    /\ hung = FALSE
    /\ deleted = [ returned |-> {}, provider |-> {} ]
    /\ tasks = << >>
    /\ chats = << >>
    /\ storage = << >>
    /\ clients = << >>
    /\ client_keys = << >>
    /\ active_client_index = None
    /\ logins = LoginForms \o LoginForms

\* A login form succeeds (Login::show registers the client and spawns the
\* refresh) and show_login_forms saves the client under its key in the same
\* frame: the key is pushed and the application state persisted only when
\* the save succeeded, and the active index is set after that.
AppLoginStep(session_ok, has_file) ==
    LET key   == Key(kind, SelfId)
        st1   == SetString(storage, kind \o "_session",
                     IF kind = "matrix" THEN MatrixSerialize(None)
                     ELSE TelegramSerialize(TRUE))
        saved == ClientSave(st1, key, None, session_ok, has_file)
        keys  == IF saved.ok THEN Append(client_keys, key) ELSE client_keys
    IN
    /\ clients = << >>
    /\ logins # << >>
    /\ Len(client_keys) < MaxKeys
    /\ UNCHANGED << deleted, kind, log, chats >>
    /\ event_groups' = << >>
    /\ processed_events' = {}
    /\ pagination_token' = None
    /\ sync_token' = None
    /\ selected' = None
    /\ hung' = FALSE
    /\ clients' = << kind >>
    /\ tasks' = << Task("refresh", None, None) >>
    /\ client_keys' = keys
    /\ storage' = IF saved.ok
                  THEN SetString(saved.storage, APP_KEY,
                           AppState(keys, chats, active_client_index))
                  ELSE st1
    /\ active_client_index' = Some(0)
    /\ logins' = << >>

AppLogin == \E session_ok, has_file \in BOOLEAN : AppLoginStep(session_ok, has_file)

\* The task spawned at login and at restore: sync, then chats(); the
\* cache is assigned under its lock in one statement.
RefreshTaskStep(i, f, fail_at) ==
    LET r      == MatrixSyncResult(f)
        synced == IF kind = "matrix" THEN r.res = "ok" ELSE TRUE
    IN
    /\ i \in 1..Len(tasks)
    /\ tasks[i].op = "refresh"
    /\ tasks' = RemoveAt(tasks, i)
    /\ UNCHANGED << deleted, kind, log, pagination_token, selected, hung >>
    /\ UNCHANGED << storage, clients, client_keys, active_client_index, logins >>
    /\ IF kind = "matrix"
       THEN /\ event_groups' = r.event_groups
            /\ processed_events' = r.processed_events
            /\ sync_token' = r.sync_token
       ELSE UNCHANGED << event_groups, processed_events, sync_token >>
    /\ chats' = ReplaceChats(chats, synced, ListChats(fail_at))

RefreshFailures == IF kind = "matrix" THEN MatrixSyncFailures ELSE {NoFail}

RefreshTask ==
    \E i \in 1..Len(tasks) : \E f \in RefreshFailures :
        \E fail_at \in 0..Cardinality(Rooms) : RefreshTaskStep(i, f, fail_at)

RECURSIVE SaveClients(_, _, _, _, _)
\* The loop of EChat::save over the clients: every key is pushed, a save
\* that fails is logged.
SaveClients(n, st, key, session_ok, has_file) ==
    IF n = 0 THEN st
    ELSE SaveClients(n - 1,
             ClientSave(st, key, sync_token, session_ok, has_file).storage,
             key, session_ok, has_file)

\* EChat::save (autosave and exit): the key list is rebuilt from the
\* registered clients, each client is saved, the application is persisted.
AppSaveStep(session_ok, has_file) ==
    LET key  == Key(kind, SelfId)
        keys == [ i \in 1..Len(clients) |-> key ]
        st1  == SaveClients(Len(clients), storage, key, session_ok, has_file)
    IN
    /\ client_keys' = keys
    /\ storage' = SetString(st1, APP_KEY, AppState(keys, chats, active_client_index))
    /\ UNCHANGED clientvars
    /\ UNCHANGED << tasks, chats, clients, active_client_index, logins >>

AppSave == \E session_ok, has_file \in BOOLEAN : AppSaveStep(session_ok, has_file)

\* The provider receives a new event while the application runs.
AppNewEvent == Len(log) < MaxAppLog /\ NewEvent

\* The storage file loses or damages, outside the program, the value of a
\* key the program reads.
StorageDamaged ==
    /\ \E k \in DOMAIN storage \cap {APP_KEY, Key(kind, SelfId)} :
          /\ storage[k] # Damaged
          /\ storage' = SetString(storage, k, Damaged)
    /\ UNCHANGED clientvars
    /\ UNCHANGED << tasks, chats, clients, client_keys, active_client_index, logins >>

\* A restore that leaves the active index as it was persisted.
ActiveAfterLoadUnset(loaded, active) == active

\* The active index after the loads of EChat::new: the first client loaded
\* is made active when no index was persisted.
ActiveAfterLoad(loaded, active) ==
    IF loaded # << >> /\ active = None THEN Some(0) ELSE active

\* The process ends (pending tasks are dropped) and EChat::new runs on the
\* storage: the persisted state or the default, one load per persisted key,
\* the first loaded client made active when none is and, for a Matrix
\* client, refreshed; two more forms when no client was loaded.
AppRestartStep(net_ok) ==
    LET app    == GetApp(storage)
        loads  == [ i \in 1..Len(app.client_keys) |->
                      LoadFromStorage(storage, app.client_keys[i], net_ok) ]
        loaded == SelectSeq(loads, LAMBDA l : l.res = "ok")
        first  == loaded # << >> /\ app.active_client_index = None
    IN
    /\ UNCHANGED << deleted, kind, log, storage >>
    /\ event_groups' = << >>
    /\ processed_events' = {}
    /\ pagination_token' = None
    /\ selected' = None
    /\ hung' = FALSE
    /\ sync_token' = IF loaded # << >> THEN loaded[1].sync_token ELSE None
    /\ client_keys' = app.client_keys
    /\ chats' = app.chats
    /\ clients' = [ i \in 1..Len(loaded) |-> kind ]
    /\ active_client_index' = ActiveAfterLoad(loaded, app.active_client_index)
    /\ tasks' = IF first /\ kind = "matrix"
                THEN << Task("refresh", None, None) >> ELSE << >>
    /\ logins' = IF loaded = << >> THEN LoginForms \o LoginForms ELSE LoginForms

AppRestart == \E net_ok \in BOOLEAN : AppRestartStep(net_ok)

AppNext ==
    \/ AppNewEvent
    \/ AppLogin
    \/ RefreshTask
    \/ AppSave
    \/ StorageDamaged
    \/ AppRestart

AppSpec == AppInit /\ [][AppNext]_vars

\* Properties of the application ----------------------------------------------

\* The complete conversation list of the account.
CompleteList == [ i \in 1..Cardinality(Rooms) |-> [ id |-> i ] ]

\* The sync of a refresh with failure f returns Ok.
Synced(f) == kind = "telegram" \/ MatrixSyncResult(f).res = "ok"

\* C17 -- Cache atomicity: a step of the running application changes the
\* cached conversation list only when it is a refresh whose sync and whose
\* chats() both succeeded, and then to the complete list; a refresh whose
\* sync or whose chats() failed leaves the cache as it was; and in both
\* cases the refresh is gone afterwards (it is not retried).
C17_CacheReplacedWholly ==
    [][ /\ ( chats' # chats /\ ~ \E net_ok \in BOOLEAN : AppRestartStep(net_ok) ) =>
              /\ chats' = CompleteList
              /\ \E i \in 1..Len(tasks) : \E f \in RefreshFailures :
                    Synced(f) /\ RefreshTaskStep(i, f, 0)
        /\ Len(tasks') < Len(tasks) =>
           \A i \in 1..Len(tasks) : \A f \in RefreshFailures :
              \A fail_at \in 0..Cardinality(Rooms) :
                 RefreshTaskStep(i, f, fail_at) =>
                    /\ ( ~Synced(f) \/ fail_at # 0 ) => chats' = chats
                    /\ \A j \in 1..Len(tasks') : tasks'[j].op # "refresh"
      ]_vars

\* A Matrix client whose refresh has run since the login and failed at the
\* sync (the cursor is still unset), with the list of an earlier session
\* still in the cache.
C17_Witness ==
    /\ kind = "matrix"
    /\ clients # << >>
    /\ logins = << >>
    /\ tasks = << >>
    /\ sync_token = None
    /\ chats = CompleteList

\* C18 -- Cursor persistence after sync: when a sync of the Matrix client
\* returns Ok, the session persisted under the client's key holds a
\* sync_token equal to the client's in-memory sync_token.
C18_CursorPersistedAfterSync ==
    [][ Len(tasks') < Len(tasks) =>
          \A i \in 1..Len(tasks) : \A f \in RefreshFailures :
            \A fail_at \in 0..Cardinality(Rooms) :
              ( /\ kind = "matrix"
                /\ MatrixSyncResult(f).res = "ok"
                /\ RefreshTaskStep(i, f, fail_at) ) =>
                  LET key == Key(kind, SelfId) IN
                  /\ key \in DOMAIN storage'
                  /\ MatrixDeserialize(storage'[key]).ok
                  /\ MatrixDeserialize(storage'[key]).sync_token = sync_token'
      ]_vars

\* C19 -- Session round trip: when the application saves its Matrix client
\* (at the login or in EChat::save) and the save succeeds, the key written is
\* "matrix-" followed by the account id, every persisted key is that key, and
\* loading that key from the storage just written yields a client whose
\* sync_token is the saved client's, None included; and a client restored by
\* EChat::new holds the sync_token of the stored session, which is the token
\* its next sync reads and passes to the provider.
C19_SessionRoundTrip ==
    [][ kind = "matrix" =>
          /\ \A has_file \in BOOLEAN :
                ( clients # << >> /\ AppSaveStep(TRUE, has_file) ) =>
                   /\ \A k \in Range(client_keys') : k = "matrix-A"
                   /\ "matrix-A" \in DOMAIN storage'
                   /\ LoadFromStorage(storage', "matrix-A", TRUE) =
                         [ res |-> "ok", sync_token |-> sync_token ]
          /\ \A has_file \in BOOLEAN :
                AppLoginStep(TRUE, has_file) =>
                   /\ \A k \in Range(client_keys') : k = "matrix-A"
                   /\ "matrix-A" \in DOMAIN storage'
                   /\ LoadFromStorage(storage', "matrix-A", TRUE) =
                         [ res |-> "ok", sync_token |-> sync_token' ]
          /\ \A net_ok \in BOOLEAN :
                ( AppRestartStep(net_ok) /\ clients' # << >> ) =>
                   /\ "matrix-A" \in DOMAIN storage
                   /\ sync_token' = MatrixDeserialize(storage["matrix-A"]).sync_token
      ]_vars

\* A Matrix client restored by EChat::new (the forms of Default are still
\* there) from a session that was saved after a sync.
C19_Witness ==
    /\ kind = "matrix"
    /\ clients # << >>
    /\ logins # << >>
    /\ sync_token # None
    /\ "sync_token" \in DOMAIN storage["matrix-A"]

\* The persisted key has no value in the storage or a value that spells no
\* session.
AbsentOrMalformed(st, key) == key \notin DOMAIN st \/ st[key] = Damaged

\* C20 -- Speculative load is safe: when EChat::new runs and every persisted
\* key is absent from the storage or has a malformed value, every load
\* returns an error value, no client is registered, nothing is spawned, and
\* the application is logged out with login forms to show.
C20_SpeculativeLoadSafe ==
    [][ \A net_ok \in BOOLEAN :
          ( /\ \A k \in Range(GetApp(storage).client_keys) :
                  AbsentOrMalformed(storage, k)
            /\ AppRestartStep(net_ok) ) =>
               /\ \A k \in Range(GetApp(storage).client_keys) :
                     LoadFromStorage(storage, k, net_ok).res = "err"
               /\ clients' = << >>
               /\ tasks' = << >>
               /\ logins' # << >>
      ]_vars

\* The application after a start in which the persisted key had a malformed
\* value: logged out, the login forms of a start without clients offered.
C20_Witness ==
    /\ clients = << >>
    /\ client_keys # << >>
    /\ logins = LoginForms \o LoginForms
    /\ Key(kind, SelfId) \in DOMAIN storage
    /\ storage[Key(kind, SelfId)] = Damaged

\* The application state is persisted as it is after the step.
Persisted ==
    /\ APP_KEY \in DOMAIN storage'
    /\ storage'[APP_KEY] # Damaged
    /\ storage'[APP_KEY].client_keys = client_keys'
    /\ storage'[APP_KEY].chats = chats'

\* C21 -- Save failure is non-fatal: when the save of a client's session
\* fails, at the login or in EChat::save, the client stays registered and
\* the application state is persisted all the same.
C21_SaveFailureNonFatal ==
    [][ \A has_file \in BOOLEAN :
          /\ AppLoginStep(FALSE, has_file) =>
                /\ clients' # << >>
                /\ Persisted
          /\ ( clients # << >> /\ AppSaveStep(FALSE, has_file) ) =>
                /\ clients' = clients
                /\ Persisted
      ]_vars

\* C22 -- First registered client becomes active: in every state of the
\* application with a registered client, whether it was registered by a
\* login or by the restore of EChat::new, the active index is Some(0), which
\* is the index of an existing client.
C22_FirstClientActive ==
    clients # << >> =>
        /\ active_client_index = Some(0)
        /\ active_client_index[1] < Len(clients)

\* A client registered by the restore of EChat::new, from a state persisted
\* at the login, when no index had been set yet: the refresh spawned for the
\* first client is pending.
C22_Witness ==
    /\ clients # << >>
    /\ logins = LoginForms
    /\ tasks # << >>
    /\ active_client_index = Some(0)

\* delete_event -------------------------------------------------------------

\* Number of delete_event calls that are followed.
MaxDeletes == 2

\* delete_event(message_id): the Matrix client returns Ok without a call;
\* the Telegram client returns Ok without a call when nothing is selected,
\* otherwise finds the chat, parses the id and asks the provider to delete
\* the message (client.delete_messages(&chat, &[msg_id])).  `provider` is the
\* set of deletions the provider was asked for.
DeleteEventResult(message_id, f) ==
    IF kind = "matrix" \/ selected = None
    THEN [ res |-> "ok", provider |-> {} ]
    ELSE IF selected[1] \notin Rooms \/ f.step = "find_chat"
    THEN [ res |-> "err_not_found", provider |-> {} ]
    ELSE IF f.step = "parse"
    THEN [ res |-> "err_parse", provider |-> {} ]
    ELSE IF f.step = "provider"
    THEN [ res |-> "err_delete", provider |-> {} ]
    ELSE [ res |-> "ok", provider |-> { << selected[1], message_id >> } ]

DeleteFailures ==
    IF kind = "matrix" THEN { NoFail }
    ELSE TelegramFailures \cup { [step |-> "parse", room |-> 0, at |-> 0] }

\* A call of delete_event; a call that returned Ok is recorded with the
\* selection it was made under.
DeleteEventStep(message_id, f) ==
    LET r == DeleteEventResult(message_id, f) IN
    /\ ~hung
    /\ Cardinality(deleted.returned) < MaxDeletes
    /\ UNCHANGED appvars
    /\ UNCHANGED << kind, log, event_groups, processed_events, pagination_token,
                    sync_token, selected, hung >>
    /\ deleted' =
          [ returned |-> deleted.returned \cup
                (IF r.res = "ok" THEN { << selected, message_id >> } ELSE {}),
            provider |-> deleted.provider \cup r.provider ]

DeleteEvent ==
    \E message_id \in 1..MaxLog : \E f \in DeleteFailures :
        DeleteEventStep(message_id, f)

\* The user opens a conversation of the Telegram account.
DeleteSelectChat == \E chat_id \in Rooms : TelegramSelectChatStep(chat_id, NoFail)

DeleteNext ==
    \/ NewEvent
    \/ ConcSelectChat
    \/ DeleteSelectChat
    \/ DeleteEvent

DeleteSpec == Init /\ [][DeleteNext]_vars

\* C23 -- delete_event reaches the provider: for every call of delete_event
\* that returned Ok, a conversation was selected at the call and the provider
\* was asked to delete that event id in that conversation.
C23_DeleteReachesProvider ==
    \A c \in deleted.returned :
        /\ c[1] # None
        /\ << c[1][1], c[2] >> \in deleted.provider

\* C24 -- Every sync terminates: no sync call is ever left waiting for a
\* lock that will not be released, conversation selected or not, so that
\* the client's later operations are never blocked forever.
C24_EverySyncTerminates == ~hung

\* Aggregation step by step ---------------------------------------------------
\*
\* The calls of one Matrix client at the grain of their locks.  A task is
\* [op, room, from, pc, batches, groups, end]: pc is "clear" (select_chat has
\* emptied the timeline and the cursor and waits for the dedup set), "fetch"
\* (the provider call is in flight), "ready" (the answer is there: `batches`
\* are the chunks still to aggregate, one call of process_timeline_events
\* each, `end` the cursor of the answer) or "agg" (inside
\* process_timeline_events, past the loop, holding the dedup set's async
\* mutex, `groups` built and not committed yet).

\* Number of events the provider receives while the tasks race.
MaxRaceLog == 1

RaceTask(op, room, from, pc) ==
    [ op |-> op, room |-> room, from |-> from, pc |-> pc,
      batches |-> << >>, groups |-> << >>, end |-> None ]

\* A dedup set without a mutex.
LockFreeAlways(ts) == TRUE

\* self.processed_events.lock().await succeeds at once: no task is inside
\* process_timeline_events, whose guard lives until the function returns.
LockFree(ts) == \A i \in 1..Len(ts) : ts[i].pc # "agg"

\* At most one call of each operation is followed at a time.
Idle(op) == \A k \in 1..Len(tasks) : tasks[k].op # op

RaceNewEvent == Len(log) < MaxRaceLog /\ NewEvent

\* select_chat up to its first await: the room is found, the timeline and
\* the pagination cursor are emptied.
RaceSelectStart ==
    \E chat_id \in Rooms :
        /\ kind = "matrix"
        /\ Idle("select")
        /\ event_groups' = << >>
        /\ pagination_token' = None
        /\ tasks' = Append(tasks, RaceTask("select", chat_id, None, "clear"))
        /\ UNCHANGED << deleted, kind, log, processed_events, sync_token, selected, hung >>
        /\ UNCHANGED << chats, storage, clients, client_keys, active_client_index,
                        logins >>

\* select_chat gets the dedup set's mutex, empties the set and asks the
\* provider for the newest page.
RaceSelectClear(i) ==
    /\ tasks[i].pc = "clear"
    /\ LockFree(tasks)
    /\ processed_events' = {}
    /\ tasks' = [tasks EXCEPT ![i].pc = "fetch"]
    /\ UNCHANGED << deleted, kind, log, event_groups, pagination_token, sync_token,
                    selected, hung >>
    /\ UNCHANGED << chats, storage, clients, client_keys, active_client_index, logins >>

\* load_more_events up to its await: the room and the cursor are read.
RaceLoadMoreStart ==
    /\ kind = "matrix"
    /\ Idle("load_more")
    /\ selected # None
    /\ tasks' = Append(tasks, RaceTask("load_more", selected[1], pagination_token, "fetch"))
    /\ UNCHANGED clientvars
    /\ UNCHANGED << chats, storage, clients, client_keys, active_client_index, logins >>

\* sync up to its await: the cursor is read.
RaceSyncStart ==
    /\ kind = "matrix"
    /\ Idle("sync")
    /\ tasks' = Append(tasks, RaceTask("sync", 0, sync_token, "fetch"))
    /\ UNCHANGED clientvars
    /\ UNCHANGED << chats, storage, clients, client_keys, active_client_index, logins >>

\* What the provider answers to task t: the chunks to aggregate and the
\* cursor of the answer.
RaceAnswer(t) ==
    IF t.op = "sync"
    THEN LET response == SyncResponse(t.from) IN
         [ batches |-> [ k \in 1..Len(JoinedRooms(response.join)) |->
                           response.join[JoinedRooms(response.join)[k]] ],
           end |-> Some(response.next_batch) ]
    ELSE LET timeline == Messages(t.room, t.from, PageLimit) IN
         [ batches |-> << timeline.chunk >>, end |-> timeline.end ]

\* The provider call of task i returns.  sync writes its cursor before it
\* aggregates and is over when no room has news.
RaceResume(i) ==
    LET t == tasks[i]
        a == RaceAnswer(t)
    IN
    /\ t.pc = "fetch"
    /\ sync_token' = IF t.op = "sync" THEN a.end ELSE sync_token
    /\ tasks' = IF a.batches = << >> THEN RemoveAt(tasks, i)
                ELSE [tasks EXCEPT ![i].pc = "ready", ![i].batches = a.batches,
                                   ![i].end = a.end]
    /\ UNCHANGED << deleted, kind, log, event_groups, processed_events, pagination_token,
                    selected, hung >>
    /\ UNCHANGED << chats, storage, clients, client_keys, active_client_index, logins >>

\* process_timeline_events of task i gets the dedup set's mutex and runs its
\* loop over the next chunk: ids are tested and inserted, groups are built.
RaceAggStart(i) ==
    LET t  == tasks[i]
        st == ProcessLoop(Reverse(Head(t.batches)), 1,
                  [ new_groups |-> << >>, current_group |-> None,
                    processed |-> processed_events, ok |-> TRUE ], NoFail)
    IN
    /\ t.pc = "ready"
    /\ LockFree(tasks)
    /\ processed_events' = st.processed
    /\ tasks' = [tasks EXCEPT ![i].pc = "agg",
                              ![i].groups = st.new_groups \o st.current_group]
    /\ UNCHANGED << deleted, kind, log, event_groups, pagination_token, sync_token,
                    selected, hung >>
    /\ UNCHANGED << chats, storage, clients, client_keys, active_client_index, logins >>

\* process_timeline_events of task i commits its groups and returns, which
\* releases the mutex; after the last chunk the caller writes its cursor
\* (select_chat and load_more_events) and its selection (select_chat).
RaceAggCommit(i) ==
    LET t    == tasks[i]
        last == Len(t.batches) = 1
    IN
    /\ t.pc = "agg"
    /\ event_groups' = CommitGroups(event_groups, t.groups, t.op # "sync")
    /\ pagination_token' = IF last /\ t.op # "sync" THEN t.end ELSE pagination_token
    /\ selected' = IF last /\ t.op = "select" THEN Some(t.room) ELSE selected
    /\ tasks' = IF last THEN RemoveAt(tasks, i)
                ELSE [tasks EXCEPT ![i].pc = "ready", ![i].batches = Tail(@),
                                   ![i].groups = << >>]
    /\ UNCHANGED << deleted, kind, log, processed_events, sync_token, hung >>
    /\ UNCHANGED << chats, storage, clients, client_keys, active_client_index, logins >>

RaceClear == \E i \in 1..Len(tasks) : RaceSelectClear(i)
RaceAnswered == \E i \in 1..Len(tasks) : RaceResume(i)
RaceAggregate == \E i \in 1..Len(tasks) : RaceAggStart(i)
RaceCommit == \E i \in 1..Len(tasks) : RaceAggCommit(i)

RaceNext ==
    \/ RaceNewEvent
    \/ RaceSelectStart
    \/ RaceLoadMoreStart
    \/ RaceSyncStart
    \/ RaceClear
    \/ RaceAnswered
    \/ RaceAggregate
    \/ RaceCommit

RaceSpec == ConcInit /\ [][RaceNext]_vars

\* C25 -- No duplicate events under interleaving: in every state reachable
\* by interleaving the sync, load_more_events and select_chat tasks of one
\* Matrix client, no event id occurs twice in the timeline and the id of
\* every event of the timeline is in the dedup set.
C25_NoDuplicateEvents ==
    LET evs == Flatten(event_groups) IN
    /\ \A i, j \in 1..Len(evs) : evs[i].id = evs[j].id => i = j
    /\ \A i \in 1..Len(evs) : evs[i].id \in processed_events

\* The tasks that are inside process_timeline_events.
Aggregating == { i \in 1..Len(tasks) : tasks[i].pc = "agg" }

\* C26 -- Aggregation calls are mutually exclusive per client: at most one
\* task of a Matrix client is inside process_timeline_events, between its
\* dedup tests and its commit, so that the steps of a sync's aggregation and
\* those of a select_chat's or load_more_events' never interleave.
C26_AggregationExclusive == Cardinality(Aggregating) <= 1

\* A sync is inside its aggregation while a load_more_events or select_chat
\* of the same client has its answer and waits for the mutex.
C26_Witness ==
    \E i, j \in 1..Len(tasks) :
        /\ tasks[i].op = "sync" /\ tasks[i].pc = "agg"
        /\ tasks[j].op # "sync" /\ tasks[j].pc = "ready"
        /\ tasks[i].groups # << >>
        /\ Head(tasks[j].batches) # << >>

\* Pagination cursors ---------------------------------------------------------

\* Number of events the provider receives while pagination is followed.
MaxCursorLog == 4

\* The provider receives a new event.
CursorNewEvent ==
    /\ Len(log) < MaxCursorLog
    /\ \E e \in RawEvents : log' = Append(log, e)
    /\ UNCHANGED appvars
    /\ UNCHANGED << deleted, kind, event_groups, processed_events, pagination_token,
                    sync_token, selected, hung >>

CursorLoadMore == MatrixLoadMoreStep(NoFail) \/ TelegramLoadMoreStep(NoFail)

CursorNext ==
    \/ CursorNewEvent
    \/ ConcSelectChat
    \/ DeleteSelectChat
    \/ CursorLoadMore

CursorSpec == Init /\ [][CursorNext]_vars

\* The cursors room.messages can have returned for conversation r.
IssuedEnds(r) ==
    { Messages(r, from, PageLimit).end :
        from \in {None} \cup { Some(k) : k \in 0..Len(History(r)) } }

\* C27 -- Cursors are only round-tripped: the pagination cursor or offset
\* that load_more_events passes to the provider is absent (None, offset 0)
\* or a value the provider returned to the client for the selected
\* conversation since its selection: for Matrix a cursor of room.messages,
\* for Telegram the id of a message delivered since the selection.
C27_CursorsRoundTripped ==
    [][ /\ ( selected # None /\ MatrixLoadMoreStep(NoFail) ) =>
              \/ pagination_token = None
              \/ pagination_token \in IssuedEnds(selected[1])
        /\ ( selected # None /\ TelegramLoadMoreStep(NoFail) ) =>
              \/ EventCount = 0
              \/ EventCount \in processed_events
      ]_vars

\* The ids of the events of a batch that are of an unsupported kind and not
\* in the dedup set `seen`.
UnsupportedNew(chunk, seen) ==
    { chunk[k].id : k \in { j \in 1..Len(chunk) :
                              chunk[j].kind # "message" /\ chunk[j].id \notin seen } }

C29_SelectIdempotent ==
    [][ /\ \A c \in Rooms :
            (selected' = Some(c) /\ MatrixSelectChatStep(c, NoFail)) =>
                LET once == ProcessTimelineEvents(<< >>, {}, SelectChunk(c), TRUE, NoFail)
                IN  /\ Len(SelectChunk(c)) <= PageLimit
                    /\ Range(TimelineEvents') = Supported(SelectChunk(c))
                    /\ event_groups' = once.event_groups
                    /\ processed_events' = once.processed_events
                    /\ pagination_token' = Messages(c, None, PageLimit).end
        /\ \A c \in Rooms :
            (selected' = Some(c) /\ TelegramSelectChatStep(c, NoFail)) =>
                LET once == ProcessMessages(<< >>, {}, IterMessages(c, 0, PageLimit))
                IN  /\ Len(IterMessages(c, 0, PageLimit)) <= PageLimit
                    /\ Range(TimelineEvents') = AsText(IterMessages(c, 0, PageLimit))
                    /\ event_groups' = once.event_groups
                    /\ processed_events' = once.processed_events
      ]_vars

\* A conversation with more events than a page holds is selected and the
\* timeline shows its newest page, so that a second select_chat of it has a
\* timeline, a dedup set and a cursor to reset and to rebuild.
C29_Witness ==
    /\ kind = "matrix"
    /\ selected # None
    /\ Len(History(selected[1])) > PageLimit
    /\ Len(TimelineEvents) = PageLimit
    /\ Range(TimelineEvents) = Supported(SelectChunk(selected[1]))
    /\ processed_events = Ids(SelectChunk(selected[1]))
    /\ pagination_token = Messages(selected[1], None, PageLimit).end


\* Order inside a sender group ----------------------------------------------

\* C30 -- events inside a group are oldest first: in every reachable state
\* of either adapter, after select_chat, load_more_events and sync alike,
\* the events of every group of the timeline are in the chronological order
\* of the conversation (ascending timestamps).
C30_GroupEventsOldestFirst ==
    \A g \in 1..Len(event_groups) :
        \A k \in 1..(Len(event_groups[g].events) - 1) :
            event_groups[g].events[k].timestamp
                < event_groups[g].events[k + 1].timestamp


\* Sender groups --------------------------------------------------------------

\* C31 -- group sender homogeneity: in every reachable state of either
\* adapter, every event of a group of the timeline was sent by the group's
\* sender (group.user_id).
C31_GroupSenderHomogeneous ==
    \A g \in 1..Len(event_groups) :
        \A k \in 1..Len(event_groups[g].events) :
            SenderOf(event_groups[g].events[k]) = event_groups[g].user_id

\* The timeline holds the events of two senders, one of them with two
\* events in its group.
C31_Witness ==
    /\ Len(event_groups) >= 2
    /\ \E g \in 1..Len(event_groups) : Len(event_groups[g].events) >= 2
    /\ \E g, h \in 1..Len(event_groups) :
           event_groups[g].user_id # event_groups[h].user_id

MaxLockLog == 1

LockTask(op, room, from, pc, holds) ==
    [ op |-> op, room |-> room, from |-> from, pc |-> pc,
      batches |-> << >>, groups |-> << >>, end |-> None, holds |-> holds ]

\* A process_timeline_events that locks the timeline together with the
\* dedup set, before its loop.
LoopGuardsWithTimeline == {"processed_events", "event_groups"}

\* The guards alive in the loop of process_timeline_events: the dedup set's,
\* taken before the loop and dropped when the function returns.
LoopGuards == {"processed_events"}

\* mutex.lock() succeeds: no task has a guard of it alive.
Free(m) == \A i \in 1..Len(tasks) : m \notin tasks[i].holds

\* The positions at which a task is suspended at a call of the provider.
AtProvider(t) == t.pc \in {"fetch", "lookup", "find"}

\* The loop has a provider call to make: the chunk holds an event that the
\* dedup set does not know (room.get_member is awaited for each of them).
NeedsLookup(chunk, processed) ==
    \E k \in 1..Len(chunk) : chunk[k].id \notin processed

LockNewEvent == Len(log) < MaxLockLog /\ NewEvent

\* MatrixClient::select_chat up to the dedup set's lock: the room is found,
\* the timeline (under its mutex) and the pagination cursor are emptied.
LockSelectStart ==
    \E chat_id \in Rooms :
        /\ kind = "matrix"
        /\ Idle("select")
        /\ Free("event_groups")
        /\ event_groups' = << >>
        /\ pagination_token' = None
        /\ tasks' = Append(tasks, LockTask("select", chat_id, None, "clear", {}))
        /\ UNCHANGED << deleted, kind, log, processed_events, sync_token, selected, hung >>
        /\ UNCHANGED << chats, storage, clients, client_keys, active_client_index,
                        logins >>

\* MatrixClient::select_chat empties the dedup set and asks for the newest
\* page.
LockSelectClear(i) ==
    /\ kind = "matrix"
    /\ tasks[i].pc = "clear"
    /\ Free("processed_events")
    /\ processed_events' = {}
    /\ tasks' = [tasks EXCEPT ![i].pc = "fetch"]
    /\ UNCHANGED << deleted, kind, log, event_groups, pagination_token, sync_token,
                    selected, hung >>
    /\ UNCHANGED << chats, storage, clients, client_keys, active_client_index, logins >>

\* MatrixClient::load_more_events up to room.messages(options).await.
LockLoadMoreStart ==
    /\ kind = "matrix"
    /\ Idle("load_more")
    /\ selected # None
    /\ tasks' = Append(tasks, LockTask("load_more", selected[1], pagination_token,
                                       "fetch", {}))
    /\ UNCHANGED clientvars
    /\ UNCHANGED << chats, storage, clients, client_keys, active_client_index, logins >>

\* MatrixClient::sync up to sync_once(settings).await.
LockSyncStart ==
    /\ kind = "matrix"
    /\ Idle("sync")
    /\ tasks' = Append(tasks, LockTask("sync", 0, sync_token, "fetch", {}))
    /\ UNCHANGED clientvars
    /\ UNCHANGED << chats, storage, clients, client_keys, active_client_index, logins >>

\* The provider call of Matrix task i returns.
LockResume(i) ==
    LET t == tasks[i]
        a == RaceAnswer(t)
    IN
    /\ kind = "matrix"
    /\ t.pc = "fetch"
    /\ sync_token' = IF t.op = "sync" THEN a.end ELSE sync_token
    /\ tasks' = IF a.batches = << >> THEN RemoveAt(tasks, i)
                ELSE [tasks EXCEPT ![i].pc = "ready", ![i].batches = a.batches,
                                   ![i].end = a.end]
    /\ UNCHANGED << deleted, kind, log, event_groups, processed_events, pagination_token,
                    selected, hung >>
    /\ UNCHANGED << chats, storage, clients, client_keys, active_client_index, logins >>

\* process_timeline_events of task i locks the dedup set and enters its
\* loop, which tests and inserts the ids, awaits the member profiles and
\* builds the groups.
LockAggEnter(i) ==
    LET t  == tasks[i]
        st == ProcessLoop(Reverse(Head(t.batches)), 1,
                  [ new_groups |-> << >>, current_group |-> None,
                    processed |-> processed_events, ok |-> TRUE ], NoFail)
    IN
    /\ kind = "matrix"
    /\ t.pc = "ready"
    /\ Free("processed_events")
    /\ processed_events' = st.processed
    /\ tasks' = [tasks EXCEPT
                    ![i].pc = IF NeedsLookup(Head(t.batches), processed_events)
                              THEN "lookup" ELSE "built",
                    ![i].groups = st.new_groups \o st.current_group,
                    ![i].holds = LoopGuards]
    /\ UNCHANGED << deleted, kind, log, event_groups, pagination_token, sync_token,
                    selected, hung >>
    /\ UNCHANGED << chats, storage, clients, client_keys, active_client_index, logins >>

\* The last provider call of the loop returns.
LockLookupDone(i) ==
    /\ tasks[i].pc = "lookup"
    /\ tasks' = [tasks EXCEPT ![i].pc = "built"]
    /\ UNCHANGED clientvars
    /\ UNCHANGED << chats, storage, clients, client_keys, active_client_index, logins >>

\* let mut event_groups = self.event_groups.lock();
LockTimeline(i) ==
    /\ tasks[i].pc = "built"
    /\ Free("event_groups")
    /\ tasks' = [tasks EXCEPT ![i].pc = "commit", ![i].holds = @ \cup {"event_groups"}]
    /\ UNCHANGED clientvars
    /\ UNCHANGED << chats, storage, clients, client_keys, active_client_index, logins >>

\* process_timeline_events of task i commits its groups and returns, which
\* drops both guards; after the last chunk the caller writes its cursor and
\* its selection.
LockCommit(i) ==
    LET t    == tasks[i]
        last == Len(t.batches) = 1
    IN
    /\ t.pc = "commit"
    /\ event_groups' = CommitGroups(event_groups, t.groups, t.op # "sync")
    /\ pagination_token' = IF last /\ t.op # "sync" THEN t.end ELSE pagination_token
    /\ selected' = IF last /\ t.op = "select" THEN Some(t.room) ELSE selected
    /\ tasks' = IF last THEN RemoveAt(tasks, i)
                ELSE [tasks EXCEPT ![i].pc = "ready", ![i].batches = Tail(@),
                                   ![i].groups = << >>, ![i].holds = {}]
    /\ UNCHANGED << deleted, kind, log, processed_events, sync_token, hung >>
    /\ UNCHANGED << chats, storage, clients, client_keys, active_client_index, logins >>

\* TelegramClient::select_chat is called.
LockTgSelectStart ==
    \E chat_id \in Rooms :
        /\ kind = "telegram"
        /\ Idle("select")
        /\ tasks' = Append(tasks, LockTask("select", chat_id, None, "start", {}))
        /\ UNCHANGED clientvars
        /\ UNCHANGED << chats, storage, clients, client_keys, active_client_index,
                        logins >>

\* TelegramClient::load_more_events reads the selection; the guard of the
\* `if let` scrutinee lives until the end of the block.
LockTgLoadMoreStart ==
    /\ kind = "telegram"
    /\ Idle("load_more")
    /\ Free("selected_chat")
    /\ selected # None
    /\ tasks' = Append(tasks, LockTask("load_more", selected[1], None, "start",
                                       {"selected_chat"}))
    /\ UNCHANGED clientvars
    /\ UNCHANGED << chats, storage, clients, client_keys, active_client_index, logins >>

\* TelegramClient::sync with a chat selected: it locks the client, reads the
\* selection and calls find_chat, which waits for the client mutex for
\* ever.
LockTgSync ==
    /\ kind = "telegram"
    /\ Idle("sync")
    /\ Free("client")
    /\ Free("selected_chat")
    /\ selected # None
    /\ hung' = TRUE
    /\ tasks' = Append(tasks, LockTask("sync", selected[1], None, "deadlock",
                                       {"client", "selected_chat"}))
    /\ UNCHANGED << deleted, kind, log, event_groups, processed_events, pagination_token,
                    sync_token, selected >>
    /\ UNCHANGED << chats, storage, clients, client_keys, active_client_index, logins >>

\* find_chat locks the client and iterates the dialogs.
LockTgFind(i) ==
    /\ tasks[i].pc = "start"
    /\ Free("client")
    /\ tasks' = [tasks EXCEPT ![i].pc = "find", ![i].holds = @ \cup {"client"}]
    /\ UNCHANGED clientvars
    /\ UNCHANGED << chats, storage, clients, client_keys, active_client_index, logins >>

\* find_chat returns the chat and drops the client's guard.
LockTgFound(i) ==
    /\ tasks[i].pc = "find"
    /\ tasks' = [tasks EXCEPT ![i].pc = "found", ![i].holds = @ \ {"client"}]
    /\ UNCHANGED clientvars
    /\ UNCHANGED << chats, storage, clients, client_keys, active_client_index, logins >>

\* select_chat: self.event_groups.lock().clear();
LockTgResetTimeline(i) ==
    /\ tasks[i].pc = "found" /\ tasks[i].op = "select"
    /\ Free("event_groups")
    /\ event_groups' = << >>
    /\ tasks' = [tasks EXCEPT ![i].pc = "reset1"]
    /\ UNCHANGED << deleted, kind, log, processed_events, pagination_token, sync_token,
                    selected, hung >>
    /\ UNCHANGED << chats, storage, clients, client_keys, active_client_index, logins >>

\* select_chat: self.processed_events.lock().await.clear();
LockTgResetDedup(i) ==
    /\ tasks[i].pc = "reset1"
    /\ Free("processed_events")
    /\ processed_events' = {}
    /\ tasks' = [tasks EXCEPT ![i].pc = "reset2"]
    /\ UNCHANGED << deleted, kind, log, event_groups, pagination_token, sync_token,
                    selected, hung >>
    /\ UNCHANGED << chats, storage, clients, client_keys, active_client_index, logins >>

\* select_chat: *self.selected_chat.lock().await = Some(chat_id);
LockTgSetSelected(i) ==
    /\ tasks[i].pc = "reset2"
    /\ Free("selected_chat")
    /\ selected' = Some(tasks[i].room)
    /\ tasks' = [tasks EXCEPT ![i].pc = "load"]
    /\ UNCHANGED << deleted, kind, log, event_groups, processed_events, pagination_token,
                    sync_token, hung >>
    /\ UNCHANGED << chats, storage, clients, client_keys, active_client_index, logins >>

\* load_more_events: the events of the timeline are counted under its mutex.
LockTgCount(i) ==
    /\ tasks[i].pc = "found" /\ tasks[i].op = "load_more"
    /\ Free("event_groups")
    /\ tasks' = [tasks EXCEPT ![i].pc = "load", ![i].from = Some(EventCount)]
    /\ UNCHANGED clientvars
    /\ UNCHANGED << chats, storage, clients, client_keys, active_client_index, logins >>

\* The client is locked and the messages are asked for.
LockTgFetch(i) ==
    /\ kind = "telegram"
    /\ tasks[i].pc = "load"
    /\ Free("client")
    /\ tasks' = [tasks EXCEPT ![i].pc = "fetch", ![i].holds = @ \cup {"client"}]
    /\ UNCHANGED clientvars
    /\ UNCHANGED << chats, storage, clients, client_keys, active_client_index, logins >>

\* The provider has delivered the messages; the client's guard is dropped.
\* With no message to process the call returns.
LockTgFetched(i) ==
    LET t == tasks[i]
        messages == IterMessages(t.room, IF t.from = None THEN 0 ELSE t.from[1],
                                 PageLimit)
    IN
    /\ kind = "telegram"
    /\ t.pc = "fetch"
    /\ tasks' = IF messages = << >> THEN RemoveAt(tasks, i)
                ELSE [tasks EXCEPT ![i].pc = "ready", ![i].batches = messages,
                                   ![i].holds = @ \ {"client"}]
    /\ UNCHANGED clientvars
    /\ UNCHANGED << chats, storage, clients, client_keys, active_client_index, logins >>

\* process_message locks the dedup set: a known id returns at once, a new
\* one is inserted.
LockTgMessage(i) ==
    LET t == tasks[i]
        known == Head(t.batches).id \in processed_events
    IN
    /\ kind = "telegram"
    /\ t.pc = "ready"
    /\ Free("processed_events")
    /\ tasks' = IF ~known
                THEN [tasks EXCEPT ![i].pc = "msg",
                                   ![i].holds = @ \cup {"processed_events"}]
                ELSE IF Len(t.batches) = 1 THEN RemoveAt(tasks, i)
                ELSE [tasks EXCEPT ![i].batches = Tail(@)]
    /\ UNCHANGED clientvars
    /\ UNCHANGED << chats, storage, clients, client_keys, active_client_index, logins >>

\* process_message: let mut event_groups = self.event_groups.lock();
LockTgTimeline(i) ==
    /\ tasks[i].pc = "msg"
    /\ Free("event_groups")
    /\ tasks' = [tasks EXCEPT ![i].pc = "push", ![i].holds = @ \cup {"event_groups"}]
    /\ UNCHANGED clientvars
    /\ UNCHANGED << chats, storage, clients, client_keys, active_client_index, logins >>

\* process_message pushes the event and returns, which drops the guards of
\* the timeline and of the dedup set.
LockTgPush(i) ==
    LET t == tasks[i]
        p == ProcessMessage(event_groups, processed_events, Head(t.batches))
    IN
    /\ t.pc = "push"
    /\ event_groups' = p.event_groups
    /\ processed_events' = p.processed_events
    /\ tasks' = IF Len(t.batches) = 1 THEN RemoveAt(tasks, i)
                ELSE [tasks EXCEPT ![i].pc = "ready", ![i].batches = Tail(@),
                                   ![i].holds = @ \ {"event_groups", "processed_events"}]
    /\ UNCHANGED << deleted, kind, log, pagination_token, sync_token, selected, hung >>
    /\ UNCHANGED << chats, storage, clients, client_keys, active_client_index, logins >>

LockClear == \E i \in 1..Len(tasks) : LockSelectClear(i)
LockAnswered == \E i \in 1..Len(tasks) : LockResume(i)
LockEnter == \E i \in 1..Len(tasks) : LockAggEnter(i)
LockLookedUp == \E i \in 1..Len(tasks) : LockLookupDone(i)
LockTimelineTaken == \E i \in 1..Len(tasks) : LockTimeline(i)
LockCommitted == \E i \in 1..Len(tasks) : LockCommit(i)
LockTgFinding == \E i \in 1..Len(tasks) : LockTgFind(i)
LockTgFindReturned == \E i \in 1..Len(tasks) : LockTgFound(i)
LockTgTimelineReset == \E i \in 1..Len(tasks) : LockTgResetTimeline(i)
LockTgDedupReset == \E i \in 1..Len(tasks) : LockTgResetDedup(i)
LockTgSelected == \E i \in 1..Len(tasks) : LockTgSetSelected(i)
LockTgCounted == \E i \in 1..Len(tasks) : LockTgCount(i)
LockTgFetching == \E i \in 1..Len(tasks) : LockTgFetch(i)
LockTgAnswered == \E i \in 1..Len(tasks) : LockTgFetched(i)
LockTgMessageTaken == \E i \in 1..Len(tasks) : LockTgMessage(i)
LockTgTimelineTaken == \E i \in 1..Len(tasks) : LockTgTimeline(i)
LockTgPushed == \E i \in 1..Len(tasks) : LockTgPush(i)

LockNext ==
    \/ LockNewEvent
    \/ LockSelectStart
    \/ LockLoadMoreStart
    \/ LockSyncStart
    \/ LockClear
    \/ LockAnswered
    \/ LockEnter
    \/ LockLookedUp
    \/ LockTimelineTaken
    \/ LockCommitted
    \/ LockTgSelectStart
    \/ LockTgLoadMoreStart
    \/ LockTgSync
    \/ LockTgFinding
    \/ LockTgFindReturned
    \/ LockTgTimelineReset
    \/ LockTgDedupReset
    \/ LockTgSelected
    \/ LockTgCounted
    \/ LockTgFetching
    \/ LockTgAnswered
    \/ LockTgMessageTaken
    \/ LockTgTimelineTaken
    \/ LockTgPushed

LockSpec == Init /\ [][LockNext]_vars

\* The tasks that have the guard of the timeline's mutex alive: a render
\* (event_groups.lock() in show_chat_interface) waits for them.
TimelineHolders == { i \in 1..Len(tasks) : "event_groups" \in tasks[i].holds }

\* C33 -- the UI never waits on the network to read the timeline: no task
\* of either adapter has the guard of the timeline's mutex alive while it is
\* suspended at a call of the provider, so that a render that locks the
\* timeline waits for in-memory work only.
C33_TimelineNeverHeldAcrossProvider ==
    \A i \in 1..Len(tasks) : AtProvider(tasks[i]) => i \notin TimelineHolders

\* A task has the timeline locked, so that a render would wait, while
\* another task of the client is suspended at the provider.
C33_Witness ==
    \E i, j \in 1..Len(tasks) :
        /\ i \in TimelineHolders
        /\ AtProvider(tasks[j])

\* Restore ------------------------------------------------------------------

\* C34 -- restore triggers the initial sync: whenever EChat::new restores a
\* Matrix client from storage as the first loaded client, that client is
\* active afterwards and a task is started that performs sync() and then
\* chats(); and the task, when its sync succeeds and chats() answers,
\* replaces the cached chat list with that answer.
C34_RestoreTriggersSync ==
    [][ /\ ( /\ kind = "matrix"
             /\ clients' # << >>
             /\ \E net_ok \in BOOLEAN : AppRestartStep(net_ok) ) =>
                /\ active_client_index' = Some(0)
                /\ \E i \in 1..Len(tasks') : tasks'[i].op = "refresh"
        /\ \A f \in RefreshFailures :
             ( /\ kind = "matrix"
               /\ Len(tasks') < Len(tasks)
               /\ MatrixSyncResult(f).res = "ok"
               /\ \E i \in 1..Len(tasks) : RefreshTaskStep(i, f, 0) ) =>
                  chats' = ListChats(0).chats
      ]_vars

\* C35 -- no empty group: in every reachable state of either adapter every
\* group of the timeline holds at least one event (the renderer takes
\* events.len() - 1 as the index of the last one).
C35_NoEmptyGroup ==
    \A g \in 1..Len(event_groups) : Len(event_groups[g].events) >= 1

\* The timeline of a Matrix client holds a group of one event only while
\* the provider has an event of an unsupported kind in some conversation.
C35_Witness ==
    /\ kind = "matrix"
    /\ \E g \in 1..Len(event_groups) : Len(event_groups[g].events) = 1
    /\ \E i \in 1..Len(log) : log[i].kind # "message"

====
